---- MODULE Spec2Model ----
(***************************************************************************)
(* Weighted Prediction Error dereverberation, nt/speech_enhancement/wpe.py *)
(*                                                                         *)
(* Three entry points are modelled, each as a call that runs from its      *)
(* first line to its return or to the exception that ends it:              *)
(*   wpe(Y, epsilon, order, delay, iterations)        SpecWpe              *)
(*   multichannel_wpe(Y, K, Delta, iterations)        SpecMc               *)
(*   dereverb(settings_file_path, x)                  SpecDereverb         *)
(*                                                                         *)
(* Tensors are functions over 0-based index ranges, as in the source.      *)
(* Index arithmetic, slicing, broadcasting, reshaping and loop order are   *)
(* computed as numpy computes them.  The result of a dense linear solve    *)
(* is kept symbolically: a predicted frame records the input frames it was *)
(* predicted from and the round whose coefficients were used, instead of a *)
(* floating point number.                                                  *)
(***************************************************************************)
EXTENDS Integers, Sequences, FiniteSets, TLC

\* Bounds of the explored inputs.
MaxT == 5
MaxF == 2
MaxOrder == 3
MaxDelay == 2
MaxIter == 2
MaxL == 2
MaxN == 2
MaxK == 3
MaxDelta == 2
MaxC == 2
MaxLines == 2

VARIABLES
    pc,                       \* position of the running call
    err,                      \* name of the exception that ended it, or "none"
    result,                   \* the value returned, <<>> before the return
    T,                        \* number of time frames of Y
    iterations,
    \* ---- wpe
    Y,                        \* Y[t][f], single-channel STFT (T x F)
    F,
    order,
    delay,
    iteration,                \* loop variable of line 96
    power_spectrum,
    dereverberated,
    Y_windowed,
    correlation_matrix,
    cross_correlation_vector,
    f,                        \* loop variable of line 111
    \* ---- multichannel_wpe (Y is an (L, N, T) tensor of distinct samples)
    L,
    N,
    K,
    Delta,
    round,                    \* rounds of the loop of line 191 completed
    G_hat,
    x_hat,
    Lambda_hat_inverse,
    psi_bar,
    R_hat,
    r_hat,
    g_hat,
    \* ---- dereverb
    matlab_available,
    started,                  \* mlab.process.started
    stop_mlab,
    settings,                 \* the lines of wpe_settings.m
    c,                        \* x.shape[1]
    lines,
    modify_settings,
    pos                       \* lines of the file read so far

commonVars == <<pc, err, result, T, iterations>>
wpeVars == <<Y, F, order, delay, iteration, power_spectrum, dereverberated,
             Y_windowed, correlation_matrix, cross_correlation_vector, f>>
mcVars == <<L, N, K, Delta, round, G_hat, x_hat, Lambda_hat_inverse, psi_bar,
            R_hat, r_hat, g_hat>>
drvVars == <<matlab_available, started, stop_mlab, settings, c, lines,
             modify_settings, pos>>
vars == <<commonVars, wpeVars, mcVars, drvVars>>

\* The variables of a function that is not the one being called.
WpeIdle ==
    /\ Y = <<>> /\ F = 0 /\ order = 0 /\ delay = 0 /\ iteration = 0
    /\ power_spectrum = <<>> /\ dereverberated = <<>> /\ Y_windowed = <<>>
    /\ correlation_matrix = <<>> /\ cross_correlation_vector = <<>> /\ f = 0

McIdle ==
    /\ L = 0 /\ N = 0 /\ K = 0 /\ Delta = 0 /\ round = 0
    /\ G_hat = <<>> /\ x_hat = <<>> /\ Lambda_hat_inverse = <<>>
    /\ psi_bar = <<>> /\ R_hat = <<>> /\ r_hat = <<>> /\ g_hat = <<>>

DrvIdle ==
    /\ matlab_available = FALSE /\ started = FALSE /\ stop_mlab = FALSE
    /\ settings = <<>> /\ c = 0 /\ lines = <<>> /\ modify_settings = FALSE
    /\ pos = 0

Min2(a, b) == IF a < b THEN a ELSE b
Max2(a, b) == IF a > b THEN a ELSE b

\* Python slice bound a[:stop] / a[start:] on an axis of length n:
\* a negative bound counts from the end, and the bound is clamped to 0..n.
PySliceBound(i, n) == IF i < 0 THEN Max2(n + i, 0) ELSE Min2(i, n)

\* numpy broadcasting of two axis lengths: equal, or one of them 1; -1 when
\* the operands cannot be broadcast together (numpy raises ValueError).
Broadcast(a, b) ==
    IF a = b THEN a ELSE IF a = 1 THEN b ELSE IF b = 1 THEN a ELSE -1

(***************************************************************************)
(* wpe                                                                     *)
(***************************************************************************)

\* The time series of one frequency bin of the input.
Signal(kind, t) ==
    CASE kind = "silence" -> 0
      [] kind = "tone"    -> 1
      [] kind = "onset"   -> IF t = 0 THEN 1 ELSE 0

SignalKinds == {"silence", "tone", "onset"}

\* np.zeros_like(Y): an entry holds a value `base` and, once it has been
\* predicted, the frames `ctx` of the context window subtracted from it.
ZeroCell == [base |-> 0, ctx |-> <<>>]

zeros_like(y) == [t \in DOMAIN y |-> [b \in DOMAIN y[t] |-> ZeroCell]]

\* np.maximum(np.abs(x * x.conj()), epsilon), epsilon > 0 and below the power
\* of a non-zero sample: which operand of the maximum an entry takes.  A
\* predicted entry's power depends on the solved coefficients ("data").
PowerOfInput(y) ==
    [t \in DOMAIN y |-> [b \in DOMAIN y[t] |->
        IF y[t][b] = 0 THEN "floor" ELSE "signal"]]

PowerOfCell(cell) ==
    IF cell.ctx # <<>> THEN "data"
    ELSE IF cell.base = 0 THEN "floor" ELSE "signal"

PowerOfEstimate(d) ==
    [t \in DOMAIN d |-> [b \in DOMAIN d[t] |-> PowerOfCell(d[t][b])]]

\* segment_axis(a, length, overlap, axis=0) on an axis of n >= length frames:
\* window j (1-based here) holds the frames (j-1)*hop .. (j-1)*hop+length-1.
segment_axis(n, length, overlap) ==
    LET hop == length - overlap
        count == (n - length) \div hop + 1
    IN  [j \in 1..count |-> [d \in 1..length |-> (j - 1) * hop + d - 1]]

\* A stop that drops one window too few.
WindowStop_DropsDelayOnly(dly) == 0 - dly

\* The stop of the slice [..., :-delay - 1] of lines 103 and 106.
WindowStop(dly) == 0 - dly - 1

\* segment_axis(Y, order, order - 1, axis=0).T[..., :-delay - 1]
Windowed(n, ord, dly) ==
    LET w == segment_axis(n, ord, ord - 1)
    IN  SubSeq(w, 1, PySliceBound(WindowStop(dly), Len(w)))

\* The start of the slices [order + delay:] of lines 110, 117 and 118.
TargetStart(ord, dly) == ord + dly

\* The frames selected by Y[order + delay:, ...]
TargetFrames(n, ord, dly) ==
    LET s == PySliceBound(TargetStart(ord, dly), n)
    IN  [j \in 1..(n - s) |-> s + j - 1]

\* Support of Y_norm = Y / sqrt(power_spectrum): power_spectrum > 0, so an
\* entry of Y_norm is zero exactly where Y is.
Y_norm(t, b) == IF Y[t][b] = 0 THEN 0 ELSE 1

\* np.einsum('...dt,...et->...de', Y_windowed_norm, Y_windowed_norm.conj())
\* for bin b: entry (d, e) counts the windows whose product is non-zero.
Correlation(w, b) ==
    [d \in 1..order |-> [e \in 1..order |->
        Cardinality({j \in 1..Len(w) :
            Y_norm(w[j][d], b) # 0 /\ Y_norm(w[j][e], b) # 0})]]

IsZeroMatrix(m) == \A d \in DOMAIN m : \A e \in DOMAIN m[d] : m[d][e] = 0

\* np.linalg.solve(correlation_matrix[f], ...): an all-zero matrix is singular
\* and raises LinAlgError; a non-zero 1x1 matrix never does; otherwise whether
\* the factorisation meets an exactly zero pivot depends on the data.
SolveOutcomes(m) ==
    IF IsZeroMatrix(m) THEN {"raise"}
    ELSE IF Cardinality(DOMAIN m) = 1 THEN {"ok"}
    ELSE {"ok", "raise"}

\* Y_windowed_norm * Y_norm[order + delay:, None, :].T.conj(): the window and
\* the target frame multiplied together at each position of the last axis.
CrossPairs(w, tg) ==
    [j \in 1..Broadcast(Len(w), Len(tg)) |->
        [window |-> w[IF Len(w) = 1 THEN 1 ELSE j],
         target |-> tg[IF Len(tg) = 1 THEN 1 ELSE j]]]

\* dereverberated[order + delay:, :] = Y[order + delay:, :] - regression_signal
\* where row j of regression_signal is predicted from window j.
Subtracted(d, w, tg) ==
    [t \in DOMAIN d |->
        IF \E j \in 1..Len(tg) : tg[j] = t
        THEN LET j == CHOOSE i \in 1..Len(tg) : tg[i] = t
             IN  [b \in DOMAIN d[t] |->
                    [base |-> Y[t][b],
                     ctx |-> w[IF Len(w) = 1 THEN 1 ELSE j]]]
        ELSE d[t]]

InitWpe ==
    /\ T \in 1..MaxT
    /\ F \in 1..MaxF
    /\ order \in 1..MaxOrder
    /\ order <= T
    /\ delay \in 0..MaxDelay
    /\ iterations \in (0 - 1)..MaxIter
    /\ \E kind \in [0..(F - 1) -> SignalKinds] :
          Y = [t \in 0..(T - 1) |-> [b \in 0..(F - 1) |-> Signal(kind[b], t)]]
    /\ McIdle
    /\ DrvIdle
    /\ pc = "call"
    /\ err = "none"
    /\ result = <<>>
    /\ iteration = 0
    /\ power_spectrum = <<>>
    /\ dereverberated = <<>>
    /\ Y_windowed = <<>>
    /\ correlation_matrix = <<>>
    /\ cross_correlation_vector = <<>>
    /\ f = 0

\* lines 91-96: shape, first power estimate, output buffer, loop entry
wpe_enter ==
    /\ pc = "call"
    /\ power_spectrum' = PowerOfInput(Y)
    /\ dereverberated' = zeros_like(Y)
    /\ iteration' = 0
    /\ pc' = IF 0 < iterations THEN "window" ELSE "return"
    /\ UNCHANGED <<mcVars, drvVars>>
    /\ UNCHANGED <<err, result, T, iterations, Y, F, order, delay, Y_windowed,
                   correlation_matrix, cross_correlation_vector, f>>

\* lines 97-106: the context windows of this round
wpe_window ==
    /\ pc = "window"
    /\ Y_windowed' = Windowed(T, order, delay)
    /\ pc' = "correlate"
    /\ UNCHANGED <<mcVars, drvVars>>
    /\ UNCHANGED <<err, result, T, iterations, Y, F, order, delay, iteration,
                   power_spectrum, dereverberated, correlation_matrix,
                   cross_correlation_vector, f>>

\* lines 107-110: correlation matrix and cross-correlation vector
wpe_correlate ==
    /\ pc = "correlate"
    /\ LET tg == TargetFrames(T, order, delay)
           ok == Broadcast(Len(Y_windowed), Len(tg)) >= 0
       IN  /\ correlation_matrix' =
                 [b \in 0..(F - 1) |-> Correlation(Y_windowed, b)]
           /\ cross_correlation_vector' =
                 IF ok THEN CrossPairs(Y_windowed, tg) ELSE <<>>
           /\ pc' = IF ok THEN "solve" ELSE "error"
           /\ err' = IF ok THEN err ELSE "ValueError"
    /\ f' = 0
    /\ UNCHANGED <<mcVars, drvVars>>
    /\ UNCHANGED <<result, T, iterations, Y, F, order, delay, iteration,
                   power_spectrum, dereverberated, Y_windowed>>

\* lines 111-113: one pass of the loop over the frequency bins
wpe_solve ==
    /\ pc = "solve"
    /\ f < F
    /\ \E o \in SolveOutcomes(correlation_matrix[f]) :
          IF o = "raise"
          THEN /\ pc' = "error"
               /\ err' = "LinAlgError"
               /\ f' = f
          ELSE /\ pc' = IF f + 1 < F THEN "solve" ELSE "subtract"
               /\ err' = err
               /\ f' = f + 1
    /\ UNCHANGED <<mcVars, drvVars>>
    /\ UNCHANGED <<result, T, iterations, Y, F, order, delay, iteration,
                   power_spectrum, dereverberated, Y_windowed,
                   correlation_matrix, cross_correlation_vector>>

\* lines 114-120: prediction, subtraction, next power estimate, loop test
wpe_subtract ==
    /\ pc = "subtract"
    /\ LET tg == TargetFrames(T, order, delay)
           rows == Broadcast(Len(tg), Len(Y_windowed))
           ok == rows = Len(tg) \/ rows = 1
       IN  IF ok
           THEN /\ dereverberated' = Subtracted(dereverberated, Y_windowed, tg)
                /\ power_spectrum' = PowerOfEstimate(dereverberated')
                /\ iteration' = iteration + 1
                /\ pc' = IF iteration + 1 < iterations THEN "window" ELSE "return"
                /\ err' = err
           ELSE /\ pc' = "error"
                /\ err' = "ValueError"
                /\ UNCHANGED <<dereverberated, power_spectrum, iteration>>
    /\ UNCHANGED <<mcVars, drvVars>>
    /\ UNCHANGED <<result, T, iterations, Y, F, order, delay, Y_windowed,
                   correlation_matrix, cross_correlation_vector, f>>

\* line 122
wpe_return ==
    /\ pc = "return"
    /\ result' = dereverberated
    /\ pc' = "done"
    /\ UNCHANGED <<err, T, iterations, wpeVars, mcVars, drvVars>>

NextWpe ==
    \/ wpe_enter
    \/ wpe_window
    \/ wpe_correlate
    \/ wpe_solve
    \/ wpe_subtract
    \/ wpe_return

SpecWpe == InitWpe /\ [][NextWpe]_vars

(***************************************************************************)
(* multichannel_wpe                                                        *)
(*                                                                         *)
(* The input Y is an (L, N, T) tensor of unrelated complex samples.  A     *)
(* tensor entry is described by the samples it is computed from:           *)
(*   x_hat[l][n][t]   = [base |-> <<l, n, t>>, the sample of Y copied,     *)
(*                       sub |-> the terms subtracted from it]             *)
(*   a term           = [g |-> filter entry, tau |-> tap, ch |-> input     *)
(*                       channel, frame |-> frame of Y multiplied by it]   *)
(*   a filter entry   = [round |-> r, m |-> i]: component i of the vector  *)
(*                      g_hat solved in round r; round 0 is the value 0    *)
(*   psi_bar[l][m][n][j] = [ch, frame, t]: Y[l, ch, frame], written in the *)
(*                      pass t of the innermost loop; ZeroEntry for 0      *)
(***************************************************************************)

\* a[i] with a Python index on an axis of length n: valid for -n <= i < n,
\* a negative index counting from the end.
PyIndexValid(i, n) == 0 - n <= i /\ i < n

PyIndex(i, n) == IF i < 0 THEN i + n ELSE i

ZeroFilterEntry == [round |-> 0, m |-> 0 - 1]

\* np.zeros((L, K, N, N), dtype=dtype), line 189
ZeroFilter ==
    [l \in 0..(L - 1) |-> [k \in 0..(K - 1) |->
        [a \in 0..(N - 1) |-> [b \in 0..(N - 1) |-> ZeroFilterEntry]]]]

\* The terms of G_hat[l, tau - Delta, :, :].conj().T.dot(y[l, :, t - tau]) for
\* output channel n: entry [a, n] of the tap matrix times input channel a.
\* A term whose filter entry is the value 0 subtracts nothing.
TapTerms(G, l, n, t, tau) ==
    {[g |-> G[l][tau - Delta][a][n], tau |-> tau, ch |-> a,
      frame |-> PyIndex(t - tau, T)] :
        a \in {i \in 0..(N - 1) : G[l][tau - Delta][i][n].round # 0}}

\* _dereverberate(y, G_hat, K, Delta): x_hat = np.copy(y), then for every
\* t in range(Delta + K, T) and tau in range(Delta, Delta + K) the tap
\* product is subtracted.
_dereverberate(G) ==
    [l \in 0..(L - 1) |-> [n \in 0..(N - 1) |-> [t \in 0..(T - 1) |->
        [base |-> <<l, n, t>>,
         sub |-> IF t >= Delta + K
                 THEN UNION {TapTerms(G, l, n, t, tau) :
                                tau \in Delta..(Delta + K - 1)}
                 ELSE {}]]]]

\* scaled_full_correlation_matrix(y) returns one N x N correlation matrix
\* per bin and one power value per bin and frame: entry t of the power is
\* the power of frame t of y.
PowerFrames == [t \in 0..(T - 1) |-> t]

\* _get_spatial_correlation_matrix_inverse(y): line 160 divides the inverse
\* of the correlation matrix by power[:, None, None, :], so column t of the
\* result is the weight derived from frame t of y.
SpatialCorrelationInverse == [t \in DOMAIN PowerFrames |-> PowerFrames[t]]

\* np.linalg.inv of the N x N correlation of T frames: of rank T at most.
InverseOutcomes == IF T < N THEN {"ok", "raise"} ELSE {"ok"}

\* a[..., start:stop] of a 0-based axis.
Slice(a, start, stop) ==
    LET n == Cardinality(DOMAIN a)
        lo == PySliceBound(start, n)
        hi == PySliceBound(stop, n)
    IN  [j \in 0..(hi - lo - 1) |-> a[lo + j]]

\* T - Delta - K + 1, the length of the last axis of psi_bar (line 168).
Columns == T - Delta - K + 1

\* _get_spatial_correlation_matrix_inverse(x_hat)[:, :, :, :T-Delta-K+1]
WeightColumns(inverse) == Slice(inverse, 0, Columns)

\* The frames of Y[:, :, K+Delta-1:], line 218
ObservationColumns ==
    Slice([t \in 0..(T - 1) |-> t], K + Delta - 1, T)

ZeroEntry == [ch |-> 0 - 1, frame |-> 0 - 1, t |-> 0 - 1]

\* One row of np.zeros((L, N*N*K, N, T-Delta-K+1)), for one bin
ZeroRow == [n \in 0..(N - 1) |-> [j \in 0..(Columns - 1) |-> ZeroEntry]]

\* The innermost loop of lines 172-175 for fixed n0, n1 and tau, from pass t
\* on.  Each pass assigns
\*   psi_bar[:, N*N*(tau-Delta) + N*n0 + n1, n0, t-Delta-K+1] = Y[:, n1, t-tau]
\* and an index outside the axis raises IndexError.
RECURSIVE CrazyLoop(_, _, _, _, _)
CrazyLoop(n0, n1, tau, t, row) ==
    IF t = T THEN [ok |-> TRUE, row |-> row]
    ELSE LET col == t - Delta - K + 1
             src == t - tau
         IN  IF PyIndexValid(col, Columns) /\ PyIndexValid(src, T)
             THEN CrazyLoop(n0, n1, tau, t + 1,
                    [row EXCEPT ![n0][PyIndex(col, Columns)] =
                        [ch |-> n1, frame |-> PyIndex(src, T), t |-> t]])
             ELSE [ok |-> FALSE, row |-> row]

\* The row index N*N*(tau-Delta) + N*n0 + n1 of line 174.
RowIndex(n0, n1, tau) == N * N * (tau - Delta) + N * n0 + n1

\* _get_crazy_matrix(Y, K, Delta) for one bin (every bin is treated alike).
\* The passes of the loops over n0, n1 and tau (lines 169-171) each write a
\* row of their own; the call fails when a pass of any of them does.
_get_crazy_matrix ==
    LET passes == (0..(N - 1)) \X (0..(N - 1)) \X (Delta..(Delta + K - 1))
        written(p) == CrazyLoop(p[1], p[2], p[3], 0, ZeroRow)
    IN  [ok |-> \A p \in passes : written(p).ok,
         psi |-> [m \in 0..(N * N * K - 1) |->
                    IF \E p \in passes : RowIndex(p[1], p[2], p[3]) = m
                    THEN written(CHOOSE p \in passes :
                                    RowIndex(p[1], p[2], p[3]) = m).row
                    ELSE ZeroRow]]

\* The tap of regressor row m.
RowTap(m) == Delta + (m \div (N * N))

\* The frames that column j of psi_bar is the regressor of: an entry holding
\* Y[ch, frame] in a row of tap tau is the context of frame + tau.
ColumnFrames(psi, j) ==
    {psi[p[1]][p[2]][j].frame + RowTap(p[1]) :
        p \in {q \in (DOMAIN psi) \X (0..(N - 1)) :
                  psi[q[1]][q[2]][j] # ZeroEntry}}

\* np.einsum('lmnt,lnot,lot->lm', psi_bar, Lambda_hat_inverse, Y[:, :, K+Delta-1:])
\* multiplies, at each position j of the axis t, column j of each operand:
\* the frames the three factors stand for.
Contraction(psi, weights, observations) ==
    [j \in 0..(Columns - 1) |->
        [regressor |-> ColumnFrames(psi, j),
         weight |-> weights[j],
         target |-> observations[j]]]

\* np.linalg.solve(R_hat[l], r_hat[l]): R_hat is a sum of Columns terms of
\* rank N at most, so it is singular when N * Columns < N*N*K; whether the
\* solver then notices depends on rounding.
SolveOutcomesMc == IF N * Columns < N * N * K THEN {"ok", "raise"} ELSE {"ok"}

\* g_hat of the round r: component m is the solution for regressor row m.
Solution(r) ==
    [l \in 0..(L - 1) |-> [m \in 0..(N * N * K - 1) |-> [round |-> r, m |-> m]]]

\* g_hat.reshape(L, N, N, K).transpose((0, 3, 1, 2)), line 229: entry
\* [l, k, a, b] of the result is entry [l, a, b, k] of the reshaped array,
\* which is component (a*N + b)*K + k of g_hat[l] (row-major order).
Unpack(g) ==
    [l \in 0..(L - 1) |-> [k \in 0..(K - 1) |->
        [a \in 0..(N - 1) |-> [b \in 0..(N - 1) |-> g[l][(a * N + b) * K + k]]]]]

\* A return that applies the filter solved last.
ReturnValue_AppliesLastFilter(x, G) == _dereverberate(G)

\* return x_hat, line 232
ReturnValue(x, G) == x

InitMc ==
    /\ L \in 1..MaxL
    /\ N \in 1..MaxN
    /\ K \in 1..MaxK
    /\ Delta \in 0..MaxDelta
    /\ T \in 1..MaxT
    /\ T > K + Delta
    /\ iterations \in 0..MaxIter
    /\ WpeIdle
    /\ DrvIdle
    /\ pc = "call"
    /\ err = "none"
    /\ result = <<>>
    /\ round = 0
    /\ G_hat = <<>>
    /\ x_hat = <<>>
    /\ Lambda_hat_inverse = <<>>
    /\ psi_bar = <<>>
    /\ R_hat = <<>>
    /\ r_hat = <<>>
    /\ g_hat = <<>>

\* lines 185-191: shape, zero filter, loop entry
mc_enter ==
    /\ pc = "call"
    /\ G_hat' = ZeroFilter
    /\ round' = 0
    /\ pc' = IF 0 < iterations THEN "dereverberate" ELSE "return"
    /\ UNCHANGED <<err, result, T, iterations, wpeVars, drvVars, L, N, K, Delta, x_hat,
                   Lambda_hat_inverse, psi_bar, R_hat, r_hat, g_hat>>

\* lines 193-194: the dereverberation pass of this round
mc_dereverberate ==
    /\ pc = "dereverberate"
    /\ x_hat' = _dereverberate(G_hat)
    /\ pc' = "statistics"
    /\ UNCHANGED <<err, result, T, iterations, wpeVars, drvVars, L, N, K, Delta, round,
                   G_hat, Lambda_hat_inverse, psi_bar, R_hat, r_hat, g_hat>>

\* lines 198-199: the weights of this round
mc_statistics ==
    /\ pc = "statistics"
    /\ \E o \in InverseOutcomes :
          LET w == WeightColumns(SpatialCorrelationInverse)
          IN  IF o = "raise"
              THEN /\ pc' = "error"
                   /\ err' = "LinAlgError"
                   /\ UNCHANGED Lambda_hat_inverse
              ELSE /\ Lambda_hat_inverse' = [l \in 0..(L - 1) |-> w]
                   /\ pc' = IF Cardinality(DOMAIN w) = Columns
                            THEN "regressors" ELSE "error"
                   /\ err' = IF Cardinality(DOMAIN w) = Columns
                             THEN err ELSE "AssertionError"
    /\ UNCHANGED <<result, T, iterations, wpeVars, drvVars, L, N, K, Delta, round,
                   G_hat, x_hat, psi_bar, R_hat, r_hat, g_hat>>

\* lines 202-203: the regressor tensor
mc_regressors ==
    /\ pc = "regressors"
    /\ LET built == _get_crazy_matrix
       IN  IF built.ok
           THEN /\ psi_bar' = [l \in 0..(L - 1) |-> built.psi]
                /\ pc' = "normal_equations"
                /\ err' = err
           ELSE /\ pc' = "error"
                /\ err' = "IndexError"
                /\ UNCHANGED psi_bar
    /\ UNCHANGED <<result, T, iterations, wpeVars, drvVars, L, N, K, Delta, round,
                   G_hat, x_hat, Lambda_hat_inverse, R_hat, r_hat, g_hat>>

\* lines 206-220: R_hat and r_hat
mc_normal_equations ==
    /\ pc = "normal_equations"
    /\ LET obs == ObservationColumns
           ok == Cardinality(DOMAIN obs) = Columns
       IN  IF ok
           THEN /\ R_hat' = [l \in 0..(L - 1) |->
                    [j \in 0..(Columns - 1) |->
                        [regressor |-> ColumnFrames(psi_bar[l], j),
                         weight |-> Lambda_hat_inverse[l][j]]]]
                /\ r_hat' = [l \in 0..(L - 1) |->
                    Contraction(psi_bar[l], Lambda_hat_inverse[l], obs)]
                /\ pc' = "solve"
                /\ err' = err
           ELSE /\ pc' = "error"
                /\ err' = "ValueError"
                /\ UNCHANGED <<R_hat, r_hat>>
    /\ UNCHANGED <<result, T, iterations, wpeVars, drvVars, L, N, K, Delta, round,
                   G_hat, x_hat, Lambda_hat_inverse, psi_bar, g_hat>>

\* lines 224-230 and the loop test: solve, unpack, replace the filter
mc_solve ==
    /\ pc = "solve"
    /\ \E o \in SolveOutcomesMc :
          IF o = "raise"
          THEN /\ pc' = "error"
               /\ err' = "LinAlgError"
               /\ UNCHANGED <<g_hat, G_hat, round>>
          ELSE /\ g_hat' = Solution(round + 1)
               /\ G_hat' = Unpack(g_hat')
               /\ round' = round + 1
               /\ pc' = IF round + 1 < iterations THEN "dereverberate" ELSE "return"
               /\ err' = err
    /\ UNCHANGED <<result, T, iterations, wpeVars, drvVars, L, N, K, Delta, x_hat,
                   Lambda_hat_inverse, psi_bar, R_hat, r_hat>>

\* line 232: x_hat is bound only once the loop body has run
mc_return ==
    /\ pc = "return"
    /\ IF x_hat = <<>>
       THEN /\ pc' = "error"
            /\ err' = "UnboundLocalError"
            /\ UNCHANGED result
       ELSE /\ result' = ReturnValue(x_hat, G_hat)
            /\ pc' = "done"
            /\ err' = err
    /\ UNCHANGED <<T, iterations, wpeVars, drvVars, mcVars>>

NextMc ==
    \/ mc_enter
    \/ mc_dereverberate
    \/ mc_statistics
    \/ mc_regressors
    \/ mc_normal_equations
    \/ mc_solve
    \/ mc_return

SpecMc == InitMc /\ [][NextMc]_vars

(***************************************************************************)
(* dereverb                                                                *)
(*                                                                         *)
(* A line of wpe_settings.m is a sequence of characters: the digits, ";",  *)
(* "x" for any text without a digit, and "D" for the text 'num_mic = '.    *)
(***************************************************************************)

Digits == <<"0", "1", "2", "3", "4", "5", "6", "7", "8", "9">>

\* str(c) for c >= 0
RECURSIVE str(_)
str(n) == IF n < 10 THEN <<Digits[n + 1]>>
          ELSE str(n \div 10) \o <<Digits[(n % 10) + 1]>>

\* needle in line, on character sequences
Contains(line, needle) ==
    \E i \in 0..(Len(line) - Len(needle)) :
        SubSeq(line, i + 1, i + Len(needle)) = needle

\* 'num_mic = ' in line
IsDeclaration(line) == Contains(line, <<"D">>)

\* The counts a settings file may declare.
DeclaredCounts == {1, 2, 3, 10, 12}

Declaration(n) == <<"D">> \o str(n) \o <<";">>

SettingsLines == {<<"x">>} \cup {Declaration(n) : n \in DeclaredCounts}

\* The number a run of digit characters denotes.
RECURSIVE Number(_)
Number(ds) ==
    IF ds = <<>> THEN 0
    ELSE 10 * Number(SubSeq(ds, 1, Len(ds) - 1))
         + (CHOOSE d \in 0..9 : Digits[d + 1] = ds[Len(ds)])

\* The channel count the engine reads from a declaration line: the digits
\* between 'num_mic = ' and ';'.
DeclaredCount(line) ==
    LET d == CHOOSE i \in 1..Len(line) : line[i] = "D"
        e == CHOOSE i \in (d + 1)..Len(line) : line[i] = ";"
    IN  Number(SubSeq(line, d + 1, e - 1))

\* not str(c) in line, line 52
Mismatch(line, n) == ~Contains(line, str(n))

InitDereverb ==
    /\ matlab_available \in BOOLEAN
    /\ started \in BOOLEAN
    /\ stop_mlab \in BOOLEAN
    /\ c \in 1..MaxC
    /\ \E n \in 1..MaxLines : settings \in [1..n -> SettingsLines]
    /\ lines = <<>>
    /\ modify_settings = FALSE
    /\ pos = 0
    /\ WpeIdle
    /\ McIdle
    /\ T = 0
    /\ iterations = 0
    /\ pc = "call"
    /\ err = "none"
    /\ result = <<>>

\* lines 36-48: engine availability and start, loop entry
drv_enter ==
    /\ pc = "call"
    /\ IF ~matlab_available
       THEN /\ pc' = "error"
            /\ err' = "EnvironmentError"
            /\ UNCHANGED started
       ELSE /\ started' = TRUE
            /\ pc' = "read"
            /\ err' = err
    /\ lines' = <<>>
    /\ modify_settings' = FALSE
    /\ pos' = 0
    /\ UNCHANGED <<result, T, iterations, wpeVars, mcVars, matlab_available,
                   stop_mlab, settings, c>>

\* lines 50-57: one pass of the loop over the lines of the file
drv_read_line ==
    /\ pc = "read"
    /\ pos < Len(settings)
    /\ LET line == settings[pos + 1]
       IN  IF IsDeclaration(line) /\ ~Mismatch(line, c)
           THEN \* break
                /\ pc' = "write"
                /\ UNCHANGED <<lines, modify_settings, pos>>
           ELSE /\ lines' = Append(lines,
                        IF IsDeclaration(line) THEN Declaration(c) ELSE line)
                /\ modify_settings' = (modify_settings \/ IsDeclaration(line))
                /\ pos' = pos + 1
                /\ pc' = IF pos + 1 < Len(settings) THEN "read" ELSE "write"
    /\ UNCHANGED <<err, result, T, iterations, wpeVars, mcVars,
                   matlab_available, started, stop_mlab, settings, c>>

\* lines 58-61: the file is rewritten from the lines collected
drv_write ==
    /\ pc = "write"
    /\ settings' = IF modify_settings THEN lines ELSE settings
    /\ pc' = "engine"
    /\ UNCHANGED <<err, result, T, iterations, wpeVars, mcVars,
                   matlab_available, started, stop_mlab, c, lines,
                   modify_settings, pos>>

\* lines 64-78: x and the settings path are handed to the engine, which
\* reads the file; the result comes back and the engine is stopped on request
drv_engine ==
    /\ pc = "engine"
    /\ result' = [channels |-> c, settings |-> settings]
    /\ started' = (started /\ ~stop_mlab)
    /\ pc' = "done"
    /\ UNCHANGED <<err, T, iterations, wpeVars, mcVars, matlab_available,
                   stop_mlab, settings, c, lines, modify_settings, pos>>

NextDereverb ==
    \/ drv_enter
    \/ drv_read_line
    \/ drv_write
    \/ drv_engine

SpecDereverb == InitDereverb /\ [][NextDereverb]_vars

(***************************************************************************)
(* Properties of wpe                                                       *)
(***************************************************************************)

\* The entry of the returned tensor is the unmodified input sample.
IsInputSample(cell, t, b) == cell = [base |-> Y[t][b], ctx |-> <<>>]

\* The frames t - order - delay .. t - delay - 1.
CausalWindow(t) == [d \in 1..order |-> t - order - delay + d - 1]

\* C1: when wpe returns after at least one round, every frame before
\* order + delay of the returned tensor equals the input frame, in every bin.
C1_LeadingFrameIdentity ==
    (pc = "done" /\ iterations >= 1) =>
        \A t \in 0..(T - 1) : \A b \in 0..(F - 1) :
            t < order + delay => IsInputSample(result[t][b], t, b)

\* C2: with iterations = 0 the returned tensor equals the input, entry for entry.
C2_ZeroIterationIdentity ==
    (pc = "done" /\ iterations = 0) =>
        \A t \in 0..(T - 1) : \A b \in 0..(F - 1) :
            IsInputSample(result[t][b], t, b)

\* A call the specification calls invalid: a negative iteration count, or a
\* time length that leaves no regression target.
InvalidCall == iterations < 0 \/ T <= order + delay

\* C4: an invalid call is rejected before windowing, correlation or solve:
\* it is never found past the windowing step, never fails in the solver and
\* never returns.
C4_FailFastValidation ==
    InvalidCall =>
        /\ pc \notin {"correlate", "solve", "subtract", "return", "done"}
        /\ err # "LinAlgError"

\* C10: with T > order + delay the kept windows are as many as the regression
\* targets, and the window paired with target frame t, in the
\* cross-correlation and in the prediction, is t-order-delay .. t-delay-1.
C10_CausalContextWindows ==
    T > order + delay =>
        /\ pc \in {"correlate", "solve", "subtract"} =>
              Len(Y_windowed) = T - order - delay
        /\ pc \in {"solve", "subtract"} =>
              /\ Len(cross_correlation_vector) = T - order - delay
              /\ \A j \in DOMAIN cross_correlation_vector :
                    LET p == cross_correlation_vector[j]
                    IN  /\ p.target = order + delay + j - 1
                        /\ p.window = CausalWindow(p.target)
                        /\ \A d \in 1..order : p.window[d] + delay + 1 <= p.target
        /\ (iteration >= 1 /\ pc \in {"window", "correlate", "solve", "subtract",
                                      "return", "done"}) =>
              \A t \in (order + delay)..(T - 1) : \A b \in 0..(F - 1) :
                  dereverberated[t][b].ctx = CausalWindow(t)

\* A call with delay and order above their minimum that returned a frame
\* predicted from its context window.
C10_Witness ==
    /\ pc = "done"
    /\ T > order + delay
    /\ delay >= 1
    /\ order >= 2
    /\ \E t \in 0..(T - 1) : result[t][0].ctx # <<>>

(***************************************************************************)
(* Properties of multichannel_wpe                                          *)
(***************************************************************************)

HasShape(x) ==
    /\ DOMAIN x = 0..(L - 1)
    /\ \A l \in DOMAIN x :
          /\ DOMAIN x[l] = 0..(N - 1)
          /\ \A n \in DOMAIN x[l] : DOMAIN x[l][n] = 0..(T - 1)

\* C3: a call with valid parameters (K >= 1, Delta >= 0, iterations >= 0,
\* T > K + Delta) runs to completion, a singular system apart, and returns
\* a tensor of the input's shape (L, N, T).
C3_ShapePreservation ==
    /\ pc = "error" => err = "LinAlgError"
    /\ pc = "done" => HasShape(result)

\* The rounds whose filter is applied in the estimate x.
AppliedRounds(x) ==
    {term.g.round :
        term \in UNION {x[l][n][t].sub :
                          l \in 0..(L - 1), n \in 0..(N - 1), t \in 0..(T - 1)}}

EqualsInput(x) ==
    \A l \in 0..(L - 1) : \A n \in 0..(N - 1) : \A t \in 0..(T - 1) :
        x[l][n][t] = [base |-> <<l, n, t>>, sub |-> {}]

\* C5: the dereverberation pass of round i uses the filter solved at the end
\* of round i-1 (the zero filter in round 1), the filter is replaced as a
\* whole at the end of a round, the value returned is the pass of the last
\* round, so the filter solved last is never applied and a call with
\* iterations = 1 returns the input.
C5_IterationOrdering ==
    /\ pc \in {"statistics", "regressors", "normal_equations", "solve"} =>
          /\ AppliedRounds(x_hat) \subseteq {round}
          /\ round = 0 => EqualsInput(x_hat)
          /\ round >= 1 =>
                \A l \in 0..(L - 1) : \A n \in 0..(N - 1) :
                    \A t \in (Delta + K)..(T - 1) : x_hat[l][n][t].sub # {}
    /\ (pc \in {"dereverberate", "return"} /\ round >= 1) =>
          /\ G_hat = Unpack(g_hat)
          /\ \A l \in 0..(L - 1) : \A k \in 0..(K - 1) :
                \A a \in 0..(N - 1) : \A b \in 0..(N - 1) :
                    G_hat[l][k][a][b].round = round
    /\ pc = "done" =>
          /\ result = x_hat
          /\ AppliedRounds(result) \subseteq {iterations - 1}
          /\ iterations \notin AppliedRounds(result)
          /\ iterations = 1 => EqualsInput(result)

\* A call of two or more rounds that returned an estimate in which the
\* filter of the round before the last is applied.
C5_Witness ==
    /\ pc = "done"
    /\ iterations >= 2
    /\ AppliedRounds(result) = {iterations - 1}

\* C7: in the normal equations the regressor column j, the observation and
\* the weight multiplied with it all stand for frame j + K + Delta - 1.
C7_TimeAlignment ==
    r_hat # <<>> =>
        \A l \in 0..(L - 1) : \A j \in 0..(T - Delta - K) :
            /\ r_hat[l][j].regressor = {j + K + Delta - 1}
            /\ r_hat[l][j].target = j + K + Delta - 1
            /\ r_hat[l][j].weight = j + K + Delta - 1

\* C8: the coefficient that the dereverberation pass applies at tap
\* Delta + k from input channel n1 to output channel n0 is the component of
\* g_hat solved for regressor row N*N*k + N*n0 + n1.
C8_FilterUnpacking ==
    x_hat # <<>> =>
        \A l \in 0..(L - 1) : \A n0 \in 0..(N - 1) : \A t \in 0..(T - 1) :
            \A term \in x_hat[l][n0][t].sub :
                term.g.m = N * N * (term.tau - Delta) + N * n0 + term.ch

\* The entries of psi_bar are the shifted observations, written through
\* non-negative indices, and zero off the output channel of their row.
RegressorLayout(psi) ==
    /\ DOMAIN psi = 0..(N * N * K - 1)
    /\ \A m \in DOMAIN psi :
          /\ DOMAIN psi[m] = 0..(N - 1)
          /\ \A n \in DOMAIN psi[m] : DOMAIN psi[m][n] = 0..(T - Delta - K)
    /\ \A j \in 0..(T - Delta - K) : \A tau \in Delta..(Delta + K - 1) :
          \A n0 \in 0..(N - 1) : \A n1 \in 0..(N - 1) :
              LET m == N * N * (tau - Delta) + N * n0 + n1
              IN  /\ psi[m][n0][j].ch = n1
                  /\ psi[m][n0][j].frame = j + Delta + K - 1 - tau
                  /\ psi[m][n0][j].t - tau >= 0
                  /\ psi[m][n0][j].t - Delta - K + 1 = j
                  /\ \A n \in 0..(N - 1) : n # n0 => psi[m][n][j] = ZeroEntry

\* C9: for T > K + Delta the regressor assembly finishes without an
\* out-of-range index and returns the (N*N*K, N, T-Delta-K+1) layout above
\* for every bin.
C9_RegressorAssembly ==
    /\ pc = "error" => err # "IndexError"
    /\ psi_bar # <<>> =>
          /\ DOMAIN psi_bar = 0..(L - 1)
          /\ \A l \in DOMAIN psi_bar : RegressorLayout(psi_bar[l])

\* The layout alone, for the calls in which the assembly finishes.
RegressorLayoutWhenBuilt ==
    psi_bar # <<>> => \A l \in DOMAIN psi_bar : RegressorLayout(psi_bar[l])

(***************************************************************************)
(* Properties of dereverb                                                  *)
(***************************************************************************)

\* C6: when x is handed to the engine, every num_mic declaration of
\* wpe_settings.m equals the channel count of x: a declaration that
\* differed was rewritten before.
C6_SettingsContract ==
    pc \in {"engine", "done"} =>
        \A i \in 1..Len(settings) :
            IsDeclaration(settings[i]) => DeclaredCount(settings[i]) = c

====
